---- MODULE Spec2Model ----
(***************************************************************************)
(* Model of parse_qgroups.py: the parser of "btrfs qgroup show --raw -p"   *)
(* output followed by "btrfs sub list" output, the qgroup tree built from  *)
(* the parsed entries, its depth-first walk, and the report main() prints. *)
(*                                                                         *)
(* A Python str is modelled as a sequence of one-character strings, so     *)
(* that strip, split, startswith, isdigit, int and the comparison of       *)
(* strings are computed character by character as Python computes them.    *)
(* None is modelled as the empty sequence: no qgroup id is empty, because  *)
(* every id is a token produced by str.split().                            *)
(***************************************************************************)
EXTENDS Integers, Sequences, FiniteSets, TLC

VARIABLES
    lines,      \* sys.stdin: the raw input lines
    line_num,   \* parse_lines: number of the next line enumerate() hands out
    entries,    \* main: the entries yielded by parse_lines so far, in order
    err,        \* the exception that ended the run, or NoError
    pc,         \* main: "parse", "iter", "done" or "failed"
    subvolmap,  \* main: SubvolId -> SubvolEntry
    tree,       \* main: the QGroupTree
    root_idx,   \* QGroupTree.__iter__: number of roots already started
    stack,      \* the suspended _walk generator frames, outermost first
    items,      \* every QGroupTreeItem the tree iterator has yielded, in order
    out         \* sys.stdout: the report lines printed so far

vars == <<lines, line_num, entries, err, pc, subvolmap, tree, root_idx, stack,
          items, out>>

None == <<>>

-----------------------------------------------------------------------------
(* Python str primitives                                                   *)

Whitespace == {" ", "\t", "\n"}

Digits == {"0", "1", "2", "3", "4", "5", "6", "7", "8", "9"}

\* ord(c) for the characters that occur in qgroup ids of the model
ord(c) ==
    CASE c = " " -> 32 [] c = "-" -> 45 [] c = "/" -> 47
      [] c = "0" -> 48 [] c = "1" -> 49 [] c = "2" -> 50 [] c = "3" -> 51
      [] c = "4" -> 52 [] c = "5" -> 53 [] c = "6" -> 54 [] c = "7" -> 55
      [] c = "8" -> 56 [] c = "9" -> 57 [] c = "@" -> 64
      [] c = "D" -> 68 [] c = "I" -> 73 [] c = "X" -> 88
      [] c = "a" -> 97 [] c = "b" -> 98 [] c = "x" -> 120

DigitVal(c) == ord(c) - 48

RECURSIVE lstrip(_)
lstrip(s) ==
    IF s = <<>> THEN s
    ELSE IF Head(s) \in Whitespace THEN lstrip(Tail(s)) ELSE s

RECURSIVE rstrip(_)
rstrip(s) ==
    IF s = <<>> THEN s
    ELSE IF s[Len(s)] \in Whitespace THEN rstrip(SubSeq(s, 1, Len(s) - 1)) ELSE s

\* str.strip()
strip(s) == rstrip(lstrip(s))

\* str.split(): the maximal runs of non-whitespace characters, in order
RECURSIVE SplitFrom(_, _, _)
SplitFrom(s, cur, acc) ==
    IF s = <<>> THEN (IF cur = <<>> THEN acc ELSE Append(acc, cur))
    ELSE IF Head(s) \in Whitespace
         THEN SplitFrom(Tail(s), <<>>, IF cur = <<>> THEN acc ELSE Append(acc, cur))
         ELSE SplitFrom(Tail(s), Append(cur, Head(s)), acc)

split(s) == SplitFrom(s, <<>>, <<>>)

\* str.startswith(prefix)
startswith(s, prefix) ==
    Len(s) >= Len(prefix) /\ SubSeq(s, 1, Len(prefix)) = prefix

\* str.isdigit(): non-empty and every character a digit
isdigit(s) == s # <<>> /\ \A i \in 1..Len(s) : s[i] \in Digits

RECURSIVE DigitsValue(_)
DigitsValue(s) ==
    IF s = <<>> THEN 0
    ELSE 10 * DigitsValue(SubSeq(s, 1, Len(s) - 1)) + DigitVal(s[Len(s)])

\* int(s) on a token: an optional sign and then digits; anything else raises
\* ValueError (IntRaises)
IntBody(s) == IF s # <<>> /\ s[1] \in {"+", "-"} THEN Tail(s) ELSE s

IntRaises(s) == ~isdigit(IntBody(s))

int(s) ==
    IF s # <<>> /\ s[1] = "-" THEN 0 - DigitsValue(IntBody(s))
    ELSE DigitsValue(IntBody(s))

\* set(line): the set of the characters of a str
CharSet(s) == {s[i] : i \in 1..Len(s)}

\* str < str: lexicographic on code points, a proper prefix first
RECURSIVE StrLess(_, _)
StrLess(a, b) ==
    IF b = <<>> THEN FALSE
    ELSE IF a = <<>> THEN TRUE
    ELSE IF ord(Head(a)) # ord(Head(b)) THEN ord(Head(a)) < ord(Head(b))
    ELSE StrLess(Tail(a), Tail(b))

\* s.split('/', 1): split at the first '/', if there is one
RECURSIVE SlashPos(_, _)
SlashPos(s, i) ==
    IF i > Len(s) THEN 0 ELSE IF s[i] = "/" THEN i ELSE SlashPos(s, i + 1)

split_slash_1(s) ==
    LET p == SlashPos(s, 1)
    IN  IF p = 0 THEN <<s>>
        ELSE <<SubSeq(s, 1, p - 1), SubSeq(s, p + 1, Len(s))>>

-----------------------------------------------------------------------------
(* Entries                                                                 *)

NoError == [type |-> "none"]

ParseError(msg, line) == [type |-> "ParseError", msg |-> msg, line |-> line]

AssertionError(line) == [type |-> "AssertionError", msg |-> "", line |-> line]

SubvolEntry(id, path) == [cls |-> "SubvolEntry", id |-> id, path |-> path]

QGroupEntry(qgroupid, rfer, excl, parent) ==
    [cls |-> "QGroupEntry", qgroupid |-> qgroupid, rfer |-> rfer,
     excl |-> excl, parent |-> parent]

\* QGroupEntry._fields
T_qgroupid == <<"q", "g", "r", "o", "u", "p", "i", "d">>
T_rfer == <<"r", "f", "e", "r">>
T_excl == <<"e", "x", "c", "l">>
T_parent == <<"p", "a", "r", "e", "n", "t">>
QGroupEntry_fields == <<T_qgroupid, T_rfer, T_excl, T_parent>>

T_ID == <<"I", "D">>
T_nonparent == <<"-", "-", "-">>

\* The result of a from_line: the entry it returns, or the exception it raises
Returned(entry) == [exc |-> NoError, yielded |-> <<entry>>]
Raised(exc) == [exc |-> exc, yielded |-> <<>>]
Passed == [exc |-> NoError, yielded |-> <<>>]

\* SubvolEntry.from_line
SubvolEntry_from_line(line) ==
    LET its == split(line)
    IN  IF Len(its) < 1 THEN Raised(ParseError("Not a valid subvol entry", line))
        ELSE IF its[1] # T_ID THEN Raised(ParseError("Not a valid subvol entry", line))
        ELSE IF Len(its) < 2 THEN Raised(ParseError("Not a valid subvol entry", line))
        ELSE IF IntRaises(its[2]) THEN Raised(ParseError("Not a valid subvol entry", line))
        ELSE IF Len(its) < 9 THEN Raised(ParseError("Not a valid subvol entry", line))
        ELSE Returned(SubvolEntry(int(its[2]), its[9]))

\* QGroupEntry.from_line
QGroupEntry_from_line(line) ==
    LET its == split(line)
    IN  IF Len(its) # 4 THEN Raised(ParseError("Not a valid qgroup line", line))
        ELSE IF IntRaises(its[2]) \/ IntRaises(its[3])
             THEN Raised(ParseError("Not a valid qgroup line", line))
        ELSE Returned(QGroupEntry(its[1], int(its[2]), int(its[3]),
                                  IF its[4] # T_nonparent THEN its[4] ELSE None))

\* get_sort_key with the numeric parts left out: ids sort as plain strings
string_sort_key(id) == <<-1, 0, id>>

\* QGroupEntry.get_sort_key, on the qgroup id
get_sort_key(id) ==
    LET splitted == split_slash_1(id)
    IN  IF Len(splitted) = 2 /\ isdigit(splitted[1]) /\ isdigit(splitted[2])
        THEN <<int(splitted[1]), int(splitted[2]), id>>
        ELSE <<-1, 0, id>>

\* QGroupEntry.subvol_id: Optional[SubvolId]
NoSubvolId == [some |-> FALSE]
SomeSubvolId(n) == [some |-> TRUE, v |-> n]

subvol_id(entry) ==
    LET key == get_sort_key(entry.qgroupid)
    IN  IF key[1] = 0 THEN SomeSubvolId(key[2]) ELSE NoSubvolId

\* tuple < tuple for two sort keys
KeyLess(k1, k2) ==
    \/ k1[1] < k2[1]
    \/ k1[1] = k2[1] /\ k1[2] < k2[2]
    \/ k1[1] = k2[1] /\ k1[2] = k2[2] /\ StrLess(k1[3], k2[3])

-----------------------------------------------------------------------------
(* QGroupTree                                                              *)

\* The values of {x.id: x for x in entries}: one entry per id, in the order
\* in which the ids first occur, each id holding the last entry that has it
LastWithId(es, id) ==
    es[CHOOSE i \in 1..Len(es) :
          /\ es[i].qgroupid = id
          /\ \A j \in (i + 1)..Len(es) : es[j].qgroupid # id]

RECURSIVE DictValuesFrom(_, _)
DictValuesFrom(es, i) ==
    IF i > Len(es) THEN <<>>
    ELSE IF \E j \in 1..(i - 1) : es[j].qgroupid = es[i].qgroupid
         THEN DictValuesFrom(es, i + 1)
         ELSE <<LastWithId(es, es[i].qgroupid)>> \o DictValuesFrom(es, i + 1)

\* the entries taken as they come, with no dict keyed by id in between
all_entries(es) == es

entries_values(es) == DictValuesFrom(es, 1)

\* sorted(values, key=QGroupEntry.get_sort_key): a stable sort
RECURSIVE InsertByKey(_, _)
InsertByKey(srt, e) ==
    IF srt = <<>> THEN <<e>>
    ELSE IF KeyLess(get_sort_key(e.qgroupid), get_sort_key(Head(srt).qgroupid))
         THEN <<e>> \o srt
         ELSE <<Head(srt)>> \o InsertByKey(Tail(srt), e)

RECURSIVE sorted(_)
sorted(values) ==
    IF values = <<>> THEN <<>>
    ELSE InsertByKey(sorted(SubSeq(values, 1, Len(values) - 1)), values[Len(values)])

\* result.setdefault(entry.parent, []).append(entry), for every entry
GroupOf(es, key) == SelectSeq(es, LAMBDA e : e.parent = key)

\* QGroupTree._make_children_map
make_children_map(es) ==
    [key \in {es[i].parent : i \in 1..Len(es)} |-> sorted(GroupOf(es, key))]

\* dict.get(key, [])
get_or_empty(map, key) == IF key \in DOMAIN map THEN map[key] ELSE <<>>

\* roots that also take in the entries whose parent is not a known id
orphans_as_roots(es, children_map) ==
    sorted(SelectSeq(es, LAMBDA e :
        e.parent = None \/ \A i \in 1..Len(es) : es[i].qgroupid # e.parent))

\* roots that take in every entry
all_as_roots(es, children_map) == sorted(es)

\* self.roots
Roots(es, children_map) == get_or_empty(children_map, None)

\* QGroupTree.__init__
QGroupTree(es) ==
    LET vals == entries_values(es)
        cmap == make_children_map(vals)
    IN  [entries |-> vals, children_map |-> cmap, roots |-> Roots(vals, cmap)]

EmptyTree == [entries |-> <<>>, children_map |-> <<>>, roots |-> <<>>]

\* QGroupTree.get_children
get_children(t, entry) == get_or_empty(t.children_map, entry.qgroupid)

QGroupTreeItem(entry, level) == [entry |-> entry, level |-> level]

\* A _walk(root, level) generator suspended after it has started i children
WalkFrame(root, level) == [entry |-> root, level |-> level, i |-> 0]

\* a _walk that passes its own level on to its children
same_level(level) == level

\* the level _walk passes to the _walk of a child
child_level(level) == level + 1

\* next() on iter(tree): resume the innermost _walk; a _walk whose children
\* are exhausted returns to its caller, and __iter__ starts the next root.
RECURSIVE Resume(_, _, _)
Resume(t, ri, st) ==
    IF st = <<>>
    THEN IF ri < Len(t.roots)
         THEN [stop |-> FALSE, root_idx |-> ri + 1,
               stack |-> <<WalkFrame(t.roots[ri + 1], 0)>>,
               item |-> QGroupTreeItem(t.roots[ri + 1], 0)]
         ELSE [stop |-> TRUE, root_idx |-> ri, stack |-> <<>>]
    ELSE LET top == st[Len(st)]
             children == get_children(t, top.entry)
         IN  IF top.i < Len(children)
             THEN LET child == children[top.i + 1]
                      lvl == child_level(top.level)
                  IN  [stop |-> FALSE, root_idx |-> ri,
                       stack |-> Append([st EXCEPT ![Len(st)].i = top.i + 1],
                                        WalkFrame(child, lvl)),
                       item |-> QGroupTreeItem(child, lvl)]
             ELSE Resume(t, ri, SubSeq(st, 1, Len(st) - 1))

-----------------------------------------------------------------------------
(* main and parse_lines                                                    *)

\* a test of the first token instead of the first two characters
first_token_is_ID(line) == split(line) # <<>> /\ split(line)[1] = T_ID

\* line.startswith('ID')
is_subvol_line(line) == startswith(line, T_ID)

\* One iteration of the loop of parse_lines on the stripped line
parse_line(n, line) ==
    IF n = 1
    THEN IF split(line) # QGroupEntry_fields
         THEN Raised(ParseError("Invalid qgroup data header", line))
         ELSE Passed
    ELSE IF n = 2
    THEN IF CharSet(line) = {"-", " "} THEN Passed ELSE Raised(AssertionError(line))
    ELSE IF is_subvol_line(line)
         THEN SubvolEntry_from_line(line)
         ELSE QGroupEntry_from_line(line)

\* a parse_lines consumed lazily: the tree is built from what has come so far
lazily_consumed(n, ls) == TRUE

\* list(parse_lines(sys.stdin)) has returned: every line has been consumed
ParseDone(n, ls) == n > Len(ls)

\* {x.id: x for x in entries if isinstance(x, SubvolEntry)}
make_subvolmap(es) ==
    LET subvols == SelectSeq(es, LAMBDA e : e.cls = "SubvolEntry")
    IN  [id \in {subvols[i].id : i \in 1..Len(subvols)} |->
            subvols[CHOOSE i \in 1..Len(subvols) :
                       /\ subvols[i].id = id
                       /\ \A j \in (i + 1)..Len(subvols) : subvols[j].id # id]]

qgroup_entries(es) == SelectSeq(es, LAMBDA e : e.cls = "QGroupEntry")

RECURSIVE Indent(_)
Indent(level) ==
    IF level <= 0 THEN <<>> ELSE <<" ", " ", " ", " ">> \o Indent(level - 1)

\* subvolmap.get(subvol_id) if subvol_id else None, then getattr(.., 'path', '')
subvol_path(entry, svmap) ==
    LET sid == subvol_id(entry)
    IN  IF sid.some /\ sid.v # 0 /\ sid.v \in DOMAIN svmap
        THEN svmap[sid.v].path
        ELSE <<>>

\* a report with no filter on rfer
always_printed(entry) == TRUE

\* if item.entry.rfer != 0
is_printed(entry) == entry.rfer # 0

\* the printed line: indent, entry and path (the sizes are not formatted here)
ReportLine(item, svmap) ==
    [indent |-> Indent(item.level), entry |-> item.entry,
     path |-> subvol_path(item.entry, svmap)]

-----------------------------------------------------------------------------
(* Inputs                                                                  *)

MaxBody == 3        \* most lines after the two header lines (Spec)
MaxEntries == 3     \* most qgroup entries handed to QGroupTree (TreeSpec)

\* tokens
T_05 == <<"0", "/", "5">>
T_07 == <<"0", "/", "7">>
T_010 == <<"0", "/", "1", "0">>
T_00 == <<"0", "/", "0">>
T_17 == <<"1", "/", "7">>
T_99 == <<"9", "/", "9">>
T_ab == <<"a", "b">>
T_IDX == <<"I", "D", "X">>
T_0 == <<"0">>
T_1 == <<"1">>
T_5 == <<"5">>
T_7 == <<"7">>
T_x == <<"x">>
T_at == <<"@">>
T_a == <<"a">>
T_gen == <<"g", "e", "n">>
T_top == <<"t", "o", "p">>
T_level == <<"l", "e", "v", "e", "l">>
T_path == <<"p", "a", "t", "h">>
T_dash4 == <<"-", "-", "-", "-">>
T_eq == <<"=", "=">>

\* a raw line: the tokens joined by sep, with a newline at the end
RECURSIVE Join(_, _)
Join(tokens, sep) ==
    IF tokens = <<>> THEN <<>>
    ELSE IF Len(tokens) = 1 THEN tokens[1]
    ELSE tokens[1] \o sep \o Join(Tail(tokens), sep)

RawLine(tokens) == Join(tokens, <<" ">>) \o <<"\n">>
WideLine(tokens) == <<" ">> \o Join(tokens, <<" ", " ", "\t">>) \o <<" ", "\n">>

HeaderLines ==
    { WideLine(QGroupEntry_fields),
      RawLine(<<T_qgroupid, T_rfer, T_excl>>),
      RawLine(<<T_rfer, T_qgroupid, T_excl, T_parent>>) }

DashLines ==
    { RawLine(<<T_dash4, T_dash4, T_dash4, T_dash4>>),
      RawLine(<<T_dash4>>),
      RawLine(<<T_dash4, T_eq>>),
      RawLine(<<>>) }

SubvolLine(id, path) ==
    <<T_ID, id, T_gen, T_1, T_top, T_level, T_5, T_path, path>>

BodyLines ==
    { RawLine(<<T_05, T_0, T_0, T_nonparent>>),
      RawLine(<<T_07, T_1, T_1, T_05>>),
      WideLine(<<T_00, T_1, T_1, T_nonparent>>),
      RawLine(<<T_17, T_1, T_0, T_nonparent>>),
      RawLine(<<T_ab, T_1, T_1, T_07>>),
      RawLine(SubvolLine(T_7, T_at)),
      WideLine(SubvolLine(T_0, T_a)),
      RawLine(SubvolLine(T_x, T_at)),
      RawLine(<<T_ID, T_7, T_gen>>),
      RawLine(<<T_IDX, T_1, T_1, T_nonparent>>),
      RawLine(<<T_05, T_1, T_1>>),
      RawLine(<<T_05, T_x, T_1, T_nonparent>>),
      RawLine(<<>>) }

\* the entries of TreeSpec
TreeIds == {T_05, T_010, T_17, T_ab}
TreeParents == {None, T_05, T_010, T_ab, T_99}
TreeEntries == {QGroupEntry(id, 1, 1, parent) : id \in TreeIds, parent \in TreeParents}

-----------------------------------------------------------------------------
(* Specifications                                                          *)

\* main() about to read sys.stdin: the input is nothing, a header line alone,
\* or a header line, a dash line and at most MaxBody further lines
Init ==
    /\ \/ lines = <<>>
       \/ \E h \in HeaderLines : lines = <<h>>
       \/ \E h \in HeaderLines, d \in DashLines, k \in 0..MaxBody :
             \E b \in [1..k -> BodyLines] : lines = <<h, d>> \o b
    /\ line_num = 1
    /\ entries = <<>>
    /\ err = NoError
    /\ pc = "parse"
    /\ subvolmap = <<>>
    /\ tree = EmptyTree
    /\ root_idx = 0
    /\ stack = <<>>
    /\ items = <<>>
    /\ out = <<>>

\* main() when list(parse_lines(sys.stdin)) has returned qgroup entries
TreeInit ==
    /\ lines = <<>>
    /\ line_num = 1
    /\ \E k \in 0..MaxEntries : entries \in [1..k -> TreeEntries]
    /\ err = NoError
    /\ pc = "parse"
    /\ subvolmap = <<>>
    /\ tree = EmptyTree
    /\ root_idx = 0
    /\ stack = <<>>
    /\ items = <<>>
    /\ out = <<>>

\* parse_lines handles the next line of the input
ParseLine ==
    /\ pc = "parse"
    /\ line_num <= Len(lines)
    /\ LET line == strip(lines[line_num])
           r == parse_line(line_num, line)
       IN  IF r.exc # NoError
           THEN /\ pc' = "failed"
                /\ err' = r.exc
                /\ UNCHANGED <<line_num, entries>>
           ELSE /\ entries' = entries \o r.yielded
                /\ line_num' = line_num + 1
                /\ UNCHANGED <<pc, err>>
    /\ UNCHANGED <<lines, subvolmap, tree, root_idx, stack, items, out>>

\* main builds subvolmap and the QGroupTree and calls iter(tree)
BuildTree ==
    /\ pc = "parse"
    /\ ParseDone(line_num, lines)
    /\ subvolmap' = make_subvolmap(entries)
    /\ tree' = QGroupTree(qgroup_entries(entries))
    /\ pc' = "iter"
    /\ UNCHANGED <<lines, line_num, entries, err, root_idx, stack, items, out>>

\* one iteration of "for item in tree": the iterator yields, the body prints
LoopBody ==
    /\ pc = "iter"
    /\ LET r == Resume(tree, root_idx, stack)
       IN  /\ ~r.stop
           /\ root_idx' = r.root_idx
           /\ stack' = r.stack
           /\ items' = Append(items, r.item)
           /\ out' = IF is_printed(r.item.entry)
                     THEN Append(out, ReportLine(r.item, subvolmap))
                     ELSE out
    /\ UNCHANGED <<lines, line_num, entries, err, pc, subvolmap, tree>>

\* the iterator is exhausted: the loop and main end
LoopEnd ==
    /\ pc = "iter"
    /\ LET r == Resume(tree, root_idx, stack)
       IN  /\ r.stop
           /\ root_idx' = r.root_idx
           /\ stack' = r.stack
    /\ pc' = "done"
    /\ UNCHANGED <<lines, line_num, entries, err, subvolmap, tree, items, out>>

TreeNext == BuildTree \/ LoopBody \/ LoopEnd

Next == ParseLine \/ BuildTree \/ LoopBody \/ LoopEnd

Spec == Init /\ [][Next]_vars

TreeSpec == TreeInit /\ [][TreeNext]_vars

-----------------------------------------------------------------------------
(* The hierarchy as the specification describes it, computed from the      *)
(* accounting records of the input alone                                   *)

\* the accounting records of the input
InputQ == SelectSeq(entries, LAMBDA e : e.cls = "QGroupEntry")

\* the records of the identity mapping: for each id, the last record with it
Retained ==
    {InputQ[i] : i \in {k \in 1..Len(InputQ) :
        \A j \in (k + 1)..Len(InputQ) : InputQ[j].qgroupid # InputQ[k].qgroupid}}

KnownIds == {r.qgroupid : r \in Retained}

RecordOf(id) == CHOOSE r \in Retained : r.qgroupid = id

\* the number of parent hops from r to a record with no parent; -1 when the
\* chain of parents meets an id that does not exist or never ends
RECURSIVE HopsFrom(_, _)
HopsFrom(r, fuel) ==
    IF r.parent = None THEN 0
    ELSE IF fuel = 0 \/ r.parent \notin KnownIds THEN -1
    ELSE LET h == HopsFrom(RecordOf(r.parent), fuel - 1)
         IN  IF h = -1 THEN -1 ELSE h + 1

Hops(r) == HopsFrom(r, Cardinality(Retained))

ChainEndsAtRoot(r) == Hops(r) >= 0

\* r is on a cycle of parent references: following parents from r returns to r
RECURSIVE ReachesId(_, _, _)
ReachesId(r, id, fuel) ==
    /\ r.parent # None
    /\ \/ r.parent = id
       \/ /\ fuel > 0
          /\ r.parent \in KnownIds
          /\ ReachesId(RecordOf(r.parent), id, fuel - 1)

OnCycle(r) == ReachesId(r, r.qgroupid, Cardinality(Retained))

HasCycle == \E r \in Retained : OnCycle(r)

\* the composite form "<level>/<num>", both parts digits
IsComposite(id) ==
    \E p \in 1..Len(id) :
        /\ id[p] = "/"
        /\ \A q \in 1..(p - 1) : id[q] # "/"
        /\ isdigit(SubSeq(id, 1, p - 1))
        /\ isdigit(SubSeq(id, p + 1, Len(id)))

SlashAt(id) == CHOOSE p \in 1..Len(id) : id[p] = "/" /\ \A q \in 1..(p - 1) : id[q] # "/"
LevelPart(id) == DigitsValue(SubSeq(id, 1, SlashAt(id) - 1))
NumPart(id) == DigitsValue(SubSeq(id, SlashAt(id) + 1, Len(id)))

\* ascending SortKey: non-composite ids first, by their string; composite ids
\* by (levelPart, numPart), then by their string
SortsBefore(a, b) ==
    IF ~IsComposite(a) THEN IsComposite(b) \/ StrLess(a, b)
    ELSE /\ IsComposite(b)
         /\ \/ LevelPart(a) < LevelPart(b)
            \/ LevelPart(a) = LevelPart(b) /\ NumPart(a) < NumPart(b)
            \/ LevelPart(a) = LevelPart(b) /\ NumPart(a) = NumPart(b) /\ StrLess(a, b)

SiblingSet(key) == {r \in Retained : r.parent = key}

RECURSIVE Ascending(_)
Ascending(S) ==
    IF S = {} THEN <<>>
    ELSE LET m == CHOOSE x \in S :
                     \A o \in S \ {x} : SortsBefore(x.qgroupid, o.qgroupid)
         IN  <<m>> \o Ascending(S \ {m})

\* the depth-first pre-order of the forest below the records with no parent
RECURSIVE PreorderOfAll(_, _)
RECURSIVE PreorderOf(_, _)
PreorderOfAll(siblings, level) ==
    IF siblings = <<>> THEN <<>>
    ELSE PreorderOf(Head(siblings), level) \o PreorderOfAll(Tail(siblings), level)

PreorderOf(r, level) ==
    <<[entry |-> r, level |-> level]>>
        \o PreorderOfAll(Ascending(SiblingSet(r.qgroupid)), level + 1)

Preorder == PreorderOfAll(Ascending(SiblingSet(None)), 0)

Built == pc \in {"iter", "done"}

ItemIds == [i \in 1..Len(items) |-> items[i].entry.qgroupid]

-----------------------------------------------------------------------------
(* Claims about the hierarchy and its traversal (TreeSpec)                 *)

\* C1: every item the traversal yields has a level equal to the number of
\* parent hops from its record to a record with no parent, and no id is
\* yielded twice.
C1_DepthIsHops ==
    /\ \A i \in 1..Len(items) :
          /\ Hops(items[i].entry) >= 0
          /\ items[i].level = Hops(items[i].entry)
    /\ \A i, j \in 1..Len(items) : i # j => ItemIds[i] # ItemIds[j]

\* C1 witness: a finished traversal of a chain root, child, grandchild
C1_Witness ==
    /\ pc = "done"
    /\ Len(items) = 3
    /\ items[1].level = 0 /\ items[2].level = 1 /\ items[3].level = 2

\* C2: the traversal is the depth-first pre-order of the forest with the
\* siblings in ascending SortKey order: what has been yielded so far is a
\* prefix of that order, the finished traversal is all of it, and among
\* siblings a non-composite id is never yielded after a composite one and
\* composite ids come in ascending (levelPart, numPart).
C2_PreorderBySortKey ==
    /\ Built =>
          /\ Len(items) <= Len(Preorder)
          /\ \A i \in 1..Len(items) : items[i].entry = Preorder[i].entry
    /\ pc = "done" => Len(items) = Len(Preorder)
    /\ \A i, j \in 1..Len(items) :
          (i < j /\ items[i].entry.parent = items[j].entry.parent) =>
             /\ IsComposite(ItemIds[i]) => IsComposite(ItemIds[j])
             /\ (IsComposite(ItemIds[i]) /\ IsComposite(ItemIds[j])) =>
                   \/ LevelPart(ItemIds[i]) < LevelPart(ItemIds[j])
                   \/ /\ LevelPart(ItemIds[i]) = LevelPart(ItemIds[j])
                      /\ NumPart(ItemIds[i]) <= NumPart(ItemIds[j])

\* C2 witness: roots 0/5 and 0/10 and a non-composite child of 0/5; 0/5 comes
\* before 0/10 though "0/10" < "0/5" as strings, and the child of 0/5 comes
\* before the next root
C2_Witness ==
    /\ pc = "done"
    /\ ItemIds = <<T_05, T_ab, T_010>>
    /\ items[1].level = 0 /\ items[2].level = 1 /\ items[3].level = 0

\* a record is in the sibling group keyed by its own parent, once, and in no
\* other sibling group
InOwnGroupOnly(r) ==
    /\ r.parent \in DOMAIN tree.children_map
    /\ Cardinality({i \in 1..Len(tree.children_map[r.parent]) :
                       tree.children_map[r.parent][i] = r}) = 1
    /\ \A key \in DOMAIN tree.children_map \ {r.parent} :
          \A i \in 1..Len(tree.children_map[key]) : tree.children_map[key][i] # r

\* C3 as stated: every input record, duplicates of an id included, is in
\* exactly one sibling group, the one keyed by its own parent.
C3_EveryInputRecordGrouped ==
    Built => \A i \in 1..Len(InputQ) : InOwnGroupOnly(InputQ[i])

\* C3 as amended: every record of the identity mapping (for each id the last
\* input record carrying it) is in exactly one sibling group, the one keyed
\* by its own parent, and the groups hold no other record: an earlier record
\* whose id a later record repeats is in no group.
C3_RetainedRecordsGrouped ==
    Built =>
       /\ \A r \in Retained : InOwnGroupOnly(r)
       /\ \A key \in DOMAIN tree.children_map :
             \A i \in 1..Len(tree.children_map[key]) :
                tree.children_map[key][i] \in Retained

\* C3 witness: a hierarchy built from two records with one id and different
\* parents
C3_Witness ==
    /\ Built
    /\ \E i, j \in 1..Len(InputQ) :
          /\ i < j
          /\ InputQ[i].qgroupid = InputQ[j].qgroupid
          /\ InputQ[i].parent # InputQ[j].parent

\* C4: the traversal yields only records whose chain of parents ends at a
\* record with no parent through ids that all exist, and the finished
\* traversal has yielded every such record: a record with a parent id that
\* does not exist, and every descendant of it, is never yielded.
C4_OnlyRootedRecords ==
    /\ \A i \in 1..Len(items) :
          items[i].entry \in Retained /\ ChainEndsAtRoot(items[i].entry)
    /\ pc = "done" =>
          {items[i].entry : i \in 1..Len(items)} = {r \in Retained : ChainEndsAtRoot(r)}

\* C4 witness: a finished traversal that yielded a root and left out a record
\* with an unknown parent and a child of that record
C4_Witness ==
    /\ pc = "done"
    /\ Len(items) = 1
    /\ \E r, c \in Retained :
          /\ r.parent # None /\ r.parent \notin KnownIds
          /\ c.parent = r.qgroupid /\ c # r

\* C9 as stated: with a cycle among the parent references the traversal
\* never finishes.
C9_CycleNeverFinishes == HasCycle => pc # "done"

\* C9 as amended: with a cycle among the parent references, no record on the
\* cycle and no record whose parents lead into it is ever visited, because
\* none of them is reachable from a record with no parent. Every iteration
\* of the loop yields one item, the traversal yields at most one item per
\* record and the recursion is never deeper than the number of records, so
\* the traversal finishes.
C9_CycleNeverEntered ==
    (Built /\ HasCycle) =>
       /\ \A i \in 1..Len(items) : ChainEndsAtRoot(items[i].entry)
       /\ \A i \in 1..Len(stack) : ~OnCycle(stack[i].entry)
       /\ Len(items) <= Cardinality(Retained)
       /\ Len(stack) <= Cardinality(Retained)

\* C9 witness: a finished traversal of records of which two name each other
\* as parent, with a root that was yielded
C9_Witness ==
    /\ pc = "done"
    /\ Len(items) = 1
    /\ \E a, b \in Retained : a # b /\ a.parent = b.qgroupid /\ b.parent = a.qgroupid

-----------------------------------------------------------------------------
(* Claims about the parser and the report (Spec)                           *)

Stripped(n) == strip(lines[n])
Tokens(n) == split(Stripped(n))

\* the line consists solely of '-' and space characters
OnlyDashesAndSpaces(line) == line # <<>> /\ CharSet(line) \subseteq {"-", " "}

\* the tokens are those of a subvolume line: ID, an integer, and a ninth token
SubvolShape(toks) == Len(toks) >= 9 /\ toks[1] = T_ID /\ ~IntRaises(toks[2])

\* the tokens are those of an accounting line: exactly four, rfer and excl
\* integers
AccountingShape(toks) == Len(toks) = 4 /\ ~IntRaises(toks[2]) /\ ~IntRaises(toks[3])

AccountingRecord(toks) ==
    QGroupEntry(toks[1], int(toks[2]), int(toks[3]),
                IF toks[4] = T_nonparent THEN None ELSE toks[4])

\* the line has the shape the input format asks of line n
WellShaped(n) ==
    IF n = 1 THEN Tokens(n) = QGroupEntry_fields
    ELSE IF n = 2 THEN OnlyDashesAndSpaces(Stripped(n))
    ELSE IF Tokens(n) # <<>> /\ Tokens(n)[1] = T_ID THEN SubvolShape(Tokens(n))
    ELSE AccountingShape(Tokens(n))

\* C5 as stated: no line that violates the expected shape is passed over,
\* every failure is a ParseError that carries the offending line, and a
\* line 2 of only '-' and space characters is accepted.
C5_ShapeViolationsRaiseParseError ==
    /\ \A n \in 1..Len(lines) : n < line_num => WellShaped(n)
    /\ pc = "failed" =>
          /\ err.type = "ParseError"
          /\ err.line = Stripped(line_num)
          /\ line_num = 2 => ~OnlyDashesAndSpaces(Stripped(2))

\* C6: a record with rfer = 0 is never printed; every printed line is
\* indented by four spaces for each parent hop of its record, whether or not
\* the ancestors were printed; and once the report is finished every record
\* whose chain of parents ends at a root and whose rfer is not 0 has exactly
\* one line.
C6_FilteredReportKeepsDepth ==
    /\ \A i \in 1..Len(out) :
          /\ out[i].entry.rfer # 0
          /\ Hops(out[i].entry) >= 0
          /\ Len(out[i].indent) = 4 * Hops(out[i].entry)
          /\ \A k \in 1..Len(out[i].indent) : out[i].indent[k] = " "
    /\ pc = "done" =>
          \A r \in Retained :
             Cardinality({i \in 1..Len(out) : out[i].entry = r})
                = IF ChainEndsAtRoot(r) /\ r.rfer # 0 THEN 1 ELSE 0

\* C6 witness: a finished report with a line indented by eight spaces whose
\* record descends from a root with rfer = 0 that has no line
C6_Witness ==
    /\ pc = "done"
    /\ \E i \in 1..Len(out) :
          /\ Len(out[i].indent) = 8
          /\ \E r \in Retained :
                /\ r.parent = None /\ r.rfer = 0
                /\ ReachesId(out[i].entry, r.qgroupid, Cardinality(Retained))
                /\ \A k \in 1..Len(out) : out[k].entry # r

\* the subvolume records of the input
InputSubvols == SelectSeq(entries, LAMBDA e : e.cls = "SubvolEntry")

HasSubvolumeKey(r) == IsComposite(r.qgroupid) /\ LevelPart(r.qgroupid) = 0

SubvolumeKey(r) == NumPart(r.qgroupid)

\* C7 as stated: the path of a printed line is the path of the subvolume
\* whose id is the SubvolumeKey of the record, for every key >= 0, when the
\* record has a key and such a subvolume was parsed, and is empty otherwise.
C7_PathOfSubvolumeKey ==
    \A i \in 1..Len(out) :
       LET r == out[i].entry
           matching == {k \in 1..Len(InputSubvols) :
                           HasSubvolumeKey(r) /\ InputSubvols[k].id = SubvolumeKey(r)}
       IN  IF matching = {} THEN out[i].path = <<>>
           ELSE \E k \in matching : out[i].path = InputSubvols[k].path

\* the first two characters of the stripped line are I and D
BeginsWithID(n) ==
    Len(Stripped(n)) >= 2 /\ Stripped(n)[1] = "I" /\ Stripped(n)[2] = "D"

FirstTokenIsID(n) == Tokens(n) # <<>> /\ Tokens(n)[1] = T_ID

\* what became of line n > 2: the entry it gave, or the error it raised
Yielded(n) == n < line_num
EntryOf(n) == entries[n - 2]
FailedAt(n) == pc = "failed" /\ n = line_num

\* C8 as stated: a line after line 2 is parsed as a subvolume record exactly
\* when its first token is ID, and every other line is parsed as an
\* accounting record of exactly four tokens.
C8_ClassifiedByFirstToken ==
    \A n \in 3..Len(lines) :
       /\ Yielded(n) =>
             IF FirstTokenIsID(n) THEN EntryOf(n).cls = "SubvolEntry"
             ELSE EntryOf(n) = AccountingRecord(Tokens(n))
       /\ FailedAt(n) =>
             IF FirstTokenIsID(n) THEN err.msg = "Not a valid subvol entry"
             ELSE err.msg = "Not a valid qgroup line" /\ ~AccountingShape(Tokens(n))

\* C8 as amended: a line after line 2 is parsed as a subvolume record exactly
\* when its text, stripped, begins with the two characters ID; such a line
\* whose first token is not exactly ID (IDX, say) fails with a ParseError and
\* is never parsed as an accounting record; every other line is parsed as an
\* accounting record of exactly four tokens.
C8_ClassifiedByPrefix ==
    \A n \in 3..Len(lines) :
       /\ Yielded(n) =>
             IF BeginsWithID(n)
             THEN /\ FirstTokenIsID(n)
                  /\ EntryOf(n) = SubvolEntry(int(Tokens(n)[2]), Tokens(n)[9])
             ELSE /\ AccountingShape(Tokens(n))
                  /\ EntryOf(n) = AccountingRecord(Tokens(n))
       /\ FailedAt(n) =>
             /\ err.type = "ParseError"
             /\ err.line = Stripped(n)
             /\ IF BeginsWithID(n)
                THEN err.msg = "Not a valid subvol entry" /\ ~SubvolShape(Tokens(n))
                ELSE err.msg = "Not a valid qgroup line" /\ ~AccountingShape(Tokens(n))

\* C8 witness: the run failed on a line of four tokens, the first of them
\* IDX, as an invalid subvolume entry
C8_Witness ==
    /\ pc = "failed"
    /\ line_num >= 3
    /\ Tokens(line_num) # <<>>
    /\ Tokens(line_num)[1] = T_IDX
    /\ AccountingShape(Tokens(line_num))
    /\ err.msg = "Not a valid subvol entry"

\* C10: a report line is printed only when every input line has been parsed
\* without a failure, and a run that has failed on a line has printed nothing.
C10_NoReportBeforeParseEnds ==
    /\ out # <<>> => (line_num > Len(lines) /\ err = NoError /\ pc # "failed")
    /\ Built => line_num > Len(lines)
    /\ pc = "failed" => (out = <<>> /\ items = <<>>)

\* C10 witness: the run failed on the last of five lines, after a root with
\* rfer # 0 had been parsed
C10_Witness ==
    /\ pc = "failed"
    /\ line_num = 5 /\ Len(lines) = 5
    /\ out = <<>>
    /\ \E i \in 1..Len(entries) :
          /\ entries[i].cls = "QGroupEntry"
          /\ entries[i].parent = None /\ entries[i].rfer # 0

====
